---- MODULE Spec2Model ----
(***************************************************************************)
(* Model of the crust_of_rust crates:                                      *)
(*   smartpointers  Cell<T>, RefCell<T>, Ref, RefMut                       *)
(*   iterators      Flatten                                                *)
(*   lifetimes      StrSplit, Delimiter, until_char                        *)
(* Several specifications share the module, each about one object; a       *)
(* specification leaves the variables of the others alone.                 *)
(***************************************************************************)
EXTENDS Integers, Sequences, FiniteSets, TLC

VARIABLES
    refcell,          \* RefCell<T>: [value, state], state being a Cell<RefState>
    refs,             \* number of Ref guards granted and not yet dropped
    muts,             \* number of RefMut guards granted and not yet dropped
    written,          \* history: last value stored through a RefMut (or new's argument)
    overflow_checks,  \* build profile: TRUE = debug (overflow panics), FALSE = release (wraps)
    panicked,         \* the thread has panicked
    was,              \* history: the RefState before the most recent operation
    dropped,          \* history: the kinds of guard, "Ref" / "RefMut", dropped so far
    held,             \* a &T obtained from a live Ref and kept: None, or
                      \* Some([seen, stored]): the value it showed, and whether a
                      \* store through a RefMut has been made since
    cell,             \* Cell<T>: [value]
    lastset,          \* history: the argument of the latest Cell::set (or of Cell::new)
    got,              \* history: per get() call, the value returned and lastset at that call
    flat,             \* Flatten: [outer, front_iter, back_iter]
    input,            \* history: the iterable of iterables given to flatten()
    out,              \* history: the items yielded by next() so far
    outb,             \* history: the items yielded by next_back() so far
    strsplit,         \* StrSplit: [remainder, delimiter]
    haystack,         \* history: the &str given to StrSplit::new / until_char
    pieces,           \* history: the &str items returned so far
    twin,             \* a second RefCell<T>, given the same operations as refcell
    twin_last,        \* the most recent operation on twin and what it returned
    pc,               \* per thread: "idle", or inside "borrow" / "drop" after its state.get()
    seen,             \* per thread: the RefState its latest state.get() returned
    holders,          \* the threads that hold a live Ref
    torn,             \* history: the operations, "borrow" / "drop", whose state.set()
                      \* came after another thread had changed the state they read
    calls,            \* number of operations performed so far
    last,             \* the most recent operation and what it returned
    prev              \* the operation before it

vars == <<refcell, refs, muts, written, overflow_checks, panicked, was, dropped, held,
          cell, lastset, got, flat, input, out, outb,
          strsplit, haystack, pieces, twin, twin_last,
          pc, seen, holders, torn, calls, last, prev>>

refcellVars == <<refcell, refs, muts, written, overflow_checks, panicked, was, dropped, held>>
cellVars    == <<cell, lastset, got>>
flattenVars == <<flat, input, out, outb>>
splitVars   == <<strsplit, haystack, pieces>>
raceVars    == <<pc, seen, holders, torn>>
twinVars    == <<twin, twin_last>>

----------------------------------------------------------------------------
(* Bounds *)

CounterBits == 3      \* width of isize in the model
MaxCalls    == 14     \* operations per behaviour
MaxValue    == 2      \* values are 0..MaxValue
MaxGets     == 3      \* Cell::get calls per behaviour
MaxOuter    == 3      \* inner iterables per outer iterator
MaxInner    == 2      \* items per inner iterable
MaxHay      == 4      \* chars per haystack
MaxDelim    == 2      \* chars per &str delimiter

Values == 0 .. MaxValue
Items  == {1, 2}

\* Option<T>: None, or Some(x)
None    == << >>
Some(x) == << x >>

Called(op, ret, val) == [op |-> op, ret |-> ret, val |-> val]

\* the sequences over S of length at most n
SeqsUpTo(S, n) == UNION {[1 .. k -> S] : k \in 0 .. n}

----------------------------------------------------------------------------
(* isize *)

ISIZE_MAX == 2 ^ (CounterBits - 1) - 1
ISIZE_MIN == - (2 ^ (CounterBits - 1))

\* two's complement wrap-around of a mathematical integer into isize
Wrap(x) == ((x - ISIZE_MIN) % (2 ^ CounterBits)) + ISIZE_MIN

Overflows(x) == x > ISIZE_MAX \/ x < ISIZE_MIN

----------------------------------------------------------------------------
(* smartpointers/src/cell.rs *)

Cell_new(value) == [value |-> value]

\* Cell::set that stores nothing
Cell_set_noop(self, value) == self

Cell_set(self, value) == [self EXCEPT !.value = value]

Cell_get(self) == self.value

----------------------------------------------------------------------------
(* smartpointers/src/refcell.rs *)

Unshared  == [tag |-> "Unshared",  num |-> 0]
Shared(n) == [tag |-> "Shared",    num |-> n]
Exclusive == [tag |-> "Exclusive", num |-> 0]

RefCell_new(value) == [value |-> value, state |-> Cell_new(Unshared)]

\* `num + 1` / `n - 1` on isize: panics when overflow checks are on, wraps otherwise.
\* The result is [panic, num].
isize_arith(x, checks) ==
    IF Overflows(x)
    THEN [panic |-> checks, num |-> Wrap(x)]
    ELSE [panic |-> FALSE,  num |-> x]

\* RefCell::borrow that looks at the wrapped value: a cell that holds 0 refuses
RefCell_borrow_by_value(self, checks) ==
    LET st == Cell_get(self.state) IN
    CASE self.value = 0 ->
            [self |-> self, ret |-> "None"]
      [] self.value # 0 /\ st.tag = "Unshared" ->
            [self |-> [self EXCEPT !.state = Cell_set(self.state, Shared(1))],
             ret  |-> "Some"]
      [] self.value # 0 /\ st.tag = "Shared" ->
            LET sum == isize_arith(st.num + 1, checks) IN
            IF sum.panic
            THEN [self |-> self, ret |-> "panic"]
            ELSE [self |-> [self EXCEPT !.state = Cell_set(self.state, Shared(sum.num))],
                  ret  |-> "Some"]
      [] self.value # 0 /\ st.tag = "Exclusive" ->
            [self |-> self, ret |-> "None"]

\* RefCell::borrow: [self, ret], ret in {"Some", "None", "panic"}
RefCell_borrow(self, checks) ==
    LET st == Cell_get(self.state) IN
    CASE st.tag = "Unshared" ->
            [self |-> [self EXCEPT !.state = Cell_set(self.state, Shared(1))],
             ret  |-> "Some"]
      [] st.tag = "Shared" ->
            LET sum == isize_arith(st.num + 1, checks) IN
            IF sum.panic
            THEN [self |-> self, ret |-> "panic"]
            ELSE [self |-> [self EXCEPT !.state = Cell_set(self.state, Shared(sum.num))],
                  ret  |-> "Some"]
      [] st.tag = "Exclusive" ->
            [self |-> self, ret |-> "None"]

\* RefCell::borrow_mut whose refusing arm marks the cell Exclusive all the same
RefCell_borrow_mut_marks(self) ==
    [self |-> [self EXCEPT !.state = Cell_set(self.state, Exclusive)],
     ret  |-> IF Cell_get(self.state).tag = "Unshared" THEN "Some" ELSE "None"]

\* RefCell::borrow_mut that takes the value out of the cell when it grants
RefCell_borrow_mut_takes(self) ==
    IF Cell_get(self.state).tag = "Unshared"
    THEN [self |-> [value |-> 0, state |-> Cell_set(self.state, Exclusive)],
          ret  |-> "Some"]
    ELSE [self |-> self, ret |-> "None"]

\* RefCell::borrow_mut: [self, ret], ret in {"Some", "None"}
RefCell_borrow_mut(self) ==
    LET st == Cell_get(self.state) IN
    IF st.tag = "Unshared"
    THEN [self |-> [self EXCEPT !.state = Cell_set(self.state, Exclusive)],
          ret  |-> "Some"]
    ELSE [self |-> self, ret |-> "None"]

\* <Ref as Drop>::drop: [self, ret], ret in {"unit", "unreachable", "panic"};
\* "unreachable" is the unreachable!() arm, "panic" an overflow of `n - 1`
Ref_drop(self, checks) ==
    LET st == Cell_get(self.state) IN
    CASE st.tag \in {"Exclusive", "Unshared"} ->
            [self |-> self, ret |-> "unreachable"]
      [] st.tag = "Shared" /\ st.num = 1 ->
            [self |-> [self EXCEPT !.state = Cell_set(self.state, Unshared)],
             ret  |-> "unit"]
      [] st.tag = "Shared" /\ st.num # 1 ->
            LET dif == isize_arith(st.num - 1, checks) IN
            IF dif.panic
            THEN [self |-> self, ret |-> "panic"]
            ELSE [self |-> [self EXCEPT !.state = Cell_set(self.state, Shared(dif.num))],
                  ret  |-> "unit"]

\* <RefMut as Drop>::drop that leaves the state Exclusive
RefMut_drop_keeps_state(self) ==
    [self |-> self,
     ret  |-> IF Cell_get(self.state).tag = "Exclusive" THEN "unit" ELSE "unreachable"]

\* <RefMut as Drop>::drop that repairs an impossible state instead of failing
RefMut_drop_lenient(self) ==
    [self |-> [self EXCEPT !.state = Cell_set(self.state, Unshared)],
     ret  |-> "unit"]

\* <RefMut as Drop>::drop: [self, ret], ret in {"unit", "unreachable"}
RefMut_drop(self) ==
    LET st == Cell_get(self.state) IN
    IF st.tag \in {"Shared", "Unshared"}
    THEN [self |-> self, ret |-> "unreachable"]
    ELSE [self |-> [self EXCEPT !.state = Cell_set(self.state, Unshared)],
          ret  |-> "unit"]

\* <Ref as Deref>::deref and <RefMut as Deref>::deref: a reference to the
\* wrapped value, read at once
Ref_deref(self)    == self.value
RefMut_deref(self) == self.value

\* A later read through a &T that Ref::deref returned earlier.  The &T
\* promises that the value is not written while it lives; if a store was
\* made through a RefMut all the same, the read is undefined behaviour and
\* the build may produce the value seen before or the value stored.
Ref_deref_held(self, ref) ==
    IF ref.stored THEN {ref.seen, self.value} ELSE {self.value}

\* a store that goes to a copy of the value and is lost
RefMut_deref_mut_lost(self, value) == self

\* <RefMut as DerefMut>::deref_mut followed by a store through the &mut T
RefMut_deref_mut(self, value) == [self EXCEPT !.value = value]

----------------------------------------------------------------------------
(* iterators/src/lib.rs *)

\* Flatten::new: the outer iterator, no inner iterator open at either end
Flatten_new(iter) == [outer |-> iter, front_iter |-> None, back_iter |-> None]

\* flatten(iter) = Flatten::new(iter.into_iter())
flatten(iter) == Flatten_new(iter)

\* Flatten::next with the loop cut short: an exhausted or absent front
\* iterator is replaced once, and an empty replacement ends the iteration.
Flatten_next_no_loop(self) ==
    LET open == self.front_iter # None /\ Len(self.front_iter[1]) > 0 IN
    IF open
    THEN [self |-> [self EXCEPT !.front_iter = Some(Tail(self.front_iter[1]))],
          ret  |-> Some(Head(self.front_iter[1]))]
    ELSE IF Len(self.outer) > 0 /\ Len(Head(self.outer)) > 0
    THEN [self |-> [self EXCEPT !.front_iter = Some(Tail(Head(self.outer))),
                                !.outer = Tail(self.outer)],
          ret  |-> Some(Head(Head(self.outer)))]
    ELSE [self |-> [self EXCEPT !.front_iter = None,
                                !.outer = IF Len(self.outer) > 0
                                          THEN Tail(self.outer) ELSE self.outer],
          ret  |-> None]

\* <Flatten as Iterator>::next: [self, ret], ret an Option<Item>.
\* One evaluation is one call; the recursion is the `loop`.
RECURSIVE Flatten_next(_)
Flatten_next(self) ==
    IF self.front_iter # None /\ Len(self.front_iter[1]) > 0
    THEN \* front_iter.next() is Some(item)
         [self |-> [self EXCEPT !.front_iter = Some(Tail(self.front_iter[1]))],
          ret  |-> Some(Head(self.front_iter[1]))]
    ELSE \* front_iter is None, or exhausted and set to None
         LET s1 == [self EXCEPT !.front_iter = None] IN
         IF Len(s1.outer) > 0
         THEN \* outer.next() is Some(next_inner)
              Flatten_next([s1 EXCEPT !.front_iter = Some(Head(s1.outer)),
                                      !.outer = Tail(s1.outer)])
         ELSE \* self.back_iter.as_mut()?.next()
              IF s1.back_iter = None
              THEN [self |-> s1, ret |-> None]
              ELSE IF Len(s1.back_iter[1]) > 0
              THEN [self |-> [s1 EXCEPT !.back_iter = Some(Tail(s1.back_iter[1]))],
                    ret  |-> Some(Head(s1.back_iter[1]))]
              ELSE [self |-> s1, ret |-> None]

----------------------------------------------------------------------------
(* lifetimes/src/lib.rs *)

\* A char is its scalar value; a str is the sequence of the bytes of its
\* UTF-8 encoding, and indices into a str are byte offsets from 0.
Alphabet == {97, 98, 233}       \* 'a', 'b', 'é'

\* char::len_utf8, for scalar values below 0x800
len_utf8(c) == IF c < 128 THEN 1 ELSE 2

\* the UTF-8 encoding of one char
encode_utf8(c) == IF c < 128 THEN << c >> ELSE << 192 + (c \div 64), 128 + (c % 64) >>

\* the str made of the given chars
RECURSIVE Str(_)
Str(cs) == IF cs = << >> THEN << >> ELSE encode_utf8(Head(cs)) \o Str(Tail(cs))

\* &s[from..to] and &s[from..]
Slice(s, from, to) == SubSeq(s, from + 1, to)
SliceFrom(s, from) == SubSeq(s, from + 1, Len(s))

\* str::char_indices: the (byte offset, char) pairs of s from offset i on
RECURSIVE char_indices(_, _)
char_indices(s, i) ==
    IF i >= Len(s) THEN << >>
    ELSE IF s[i + 1] < 128
         THEN << <<i, s[i + 1]>> >> \o char_indices(s, i + 1)
         ELSE << <<i, (s[i + 1] - 192) * 64 + (s[i + 2] - 128)>> >> \o char_indices(s, i + 2)

\* str::find(&str): the offset of the first occurrence of pat in s, as an Option
str_find(s, pat) ==
    LET hits == {i \in 0 .. Len(s) - Len(pat) : Slice(s, i, i + Len(pat)) = pat} IN
    IF hits = {} THEN None ELSE Some(CHOOSE i \in hits : \A j \in hits : i <= j)

\* the two kinds of Delimiter
StrDelimiter(pat) == [kind |-> "str",  pat |-> pat,     c |-> 0]
CharDelimiter(c)  == [kind |-> "char", pat |-> << >>,   c |-> c]

\* <&str as Delimiter>::find_next that takes the delimiter to be one byte long
str_find_next_one_byte(self, s) ==
    LET start == str_find(s, self.pat) IN
    IF start = None THEN None ELSE Some(<<start[1], start[1] + 1>>)

\* <&str as Delimiter>::find_next: Option<(start, end)>
str_find_next(self, s) ==
    LET start == str_find(s, self.pat) IN
    IF start = None THEN None ELSE Some(<<start[1], start[1] + Len(self.pat)>>)

\* <char as Delimiter>::find_next that counts chars (enumerate) instead of bytes
char_find_next_by_chars(self, s) ==
    LET cis  == char_indices(s, 0)
        hits == {k \in 1 .. Len(cis) : cis[k][2] = self.c} IN
    IF hits = {} THEN None
    ELSE LET k == CHOOSE h \in hits : \A j \in hits : h <= j
         IN  Some(<<k - 1, k - 1 + len_utf8(self.c)>>)

\* <char as Delimiter>::find_next: Option<(start, end)>
char_find_next(self, s) ==
    LET cis  == char_indices(s, 0)
        hits == {k \in 1 .. Len(cis) : cis[k][2] = self.c} IN
    IF hits = {} THEN None
    ELSE LET k == CHOOSE h \in hits : \A j \in hits : h <= j
         IN  Some(<<cis[k][1], cis[k][1] + len_utf8(self.c)>>)

\* Delimiter::find_next, dispatched on the implementing type
find_next(self, s) ==
    IF self.kind = "str" THEN str_find_next(self, s) ELSE char_find_next(self, s)

StrSplit_new(hay, delimiter) == [remainder |-> Some(hay), delimiter |-> delimiter]

\* <StrSplit as Iterator>::next: [self, ret], ret an Option<&str>
StrSplit_next(self) ==
    IF self.remainder # None
    THEN LET remainder == self.remainder[1]
             found     == find_next(self.delimiter, remainder) IN
         IF found # None
         THEN LET delim_start == found[1][1]
                  delim_end   == found[1][2] IN
              [self |-> [self EXCEPT !.remainder = Some(SliceFrom(remainder, delim_end))],
               ret  |-> Some(Slice(remainder, 0, delim_start))]
         ELSE \* self.remainder.take()
              [self |-> [self EXCEPT !.remainder = None],
               ret  |-> Some(remainder)]
    ELSE [self |-> self, ret |-> None]

\* until_char: [ret, val]; ret is "panic" when expect() meets None
until_char(s, c) ==
    LET first == StrSplit_next(StrSplit_new(s, CharDelimiter(c))).ret IN
    IF first = None THEN [ret |-> "panic", val |-> << >>]
                    ELSE [ret |-> "ok",    val |-> first[1]]

----------------------------------------------------------------------------
\* the sequence s without its last element, and its last element
Front(s) == SubSeq(s, 1, Len(s) - 1)
Back(s)  == s[Len(s)]

\* <Flatten as DoubleEndedIterator>::next_back that never looks at
\* front_iter once the outer iterator is exhausted
RECURSIVE Flatten_next_back_no_front(_)
Flatten_next_back_no_front(self) ==
    IF self.back_iter # None /\ Len(self.back_iter[1]) > 0
    THEN [self |-> [self EXCEPT !.back_iter = Some(Front(self.back_iter[1]))],
          ret  |-> Some(Back(self.back_iter[1]))]
    ELSE LET s1 == [self EXCEPT !.back_iter = None] IN
         IF Len(s1.outer) > 0
         THEN Flatten_next_back_no_front([s1 EXCEPT !.back_iter = Some(Back(s1.outer)),
                                                    !.outer = Front(s1.outer)])
         ELSE [self |-> s1, ret |-> None]

\* <Flatten as DoubleEndedIterator>::next_back that opens the inner
\* iterables from the back but takes their items with next()
RECURSIVE Flatten_next_back_inner_next(_)
Flatten_next_back_inner_next(self) ==
    IF self.back_iter # None /\ Len(self.back_iter[1]) > 0
    THEN [self |-> [self EXCEPT !.back_iter = Some(Tail(self.back_iter[1]))],
          ret  |-> Some(Head(self.back_iter[1]))]
    ELSE LET s1 == [self EXCEPT !.back_iter = None] IN
         IF Len(s1.outer) > 0
         THEN Flatten_next_back_inner_next([s1 EXCEPT !.back_iter = Some(Back(s1.outer)),
                                                      !.outer = Front(s1.outer)])
         ELSE IF s1.front_iter = None
              THEN [self |-> s1, ret |-> None]
              ELSE IF Len(s1.front_iter[1]) > 0
              THEN [self |-> [s1 EXCEPT !.front_iter = Some(Front(s1.front_iter[1]))],
                    ret  |-> Some(Back(s1.front_iter[1]))]
              ELSE [self |-> s1, ret |-> None]

\* <Flatten as DoubleEndedIterator>::next_back: [self, ret], ret an Option<Item>
RECURSIVE Flatten_next_back(_)
Flatten_next_back(self) ==
    IF self.back_iter # None /\ Len(self.back_iter[1]) > 0
    THEN \* back_iter.next_back() is Some(item)
         [self |-> [self EXCEPT !.back_iter = Some(Front(self.back_iter[1]))],
          ret  |-> Some(Back(self.back_iter[1]))]
    ELSE \* back_iter is None, or exhausted and set to None
         LET s1 == [self EXCEPT !.back_iter = None] IN
         IF Len(s1.outer) > 0
         THEN \* outer.next_back() is Some(next_back_inner)
              Flatten_next_back([s1 EXCEPT !.back_iter = Some(Back(s1.outer)),
                                           !.outer = Front(s1.outer)])
         ELSE \* self.front_iter.as_mut()?.next_back()
              IF s1.front_iter = None
              THEN [self |-> s1, ret |-> None]
              ELSE IF Len(s1.front_iter[1]) > 0
              THEN [self |-> [s1 EXCEPT !.front_iter = Some(Front(s1.front_iter[1]))],
                    ret  |-> Some(Back(s1.front_iter[1]))]
              ELSE [self |-> s1, ret |-> None]

----------------------------------------------------------------------------
(* Spec: one RefCell, borrowed, read, written and released by one thread.   *)
(* Every granted guard is dropped at most once; a guard may also be kept or *)
(* leaked for good.  A panic ends the behaviour.  overflow_checks is the    *)
(* build's setting of rustc's overflow checks: on, `num + 1` panics when it *)
(* overflows; off, it wraps.                                                *)

\* the variables of the other specifications, parked
CellIdle == cell = Cell_new(0) /\ lastset = 0 /\ got = << >>

FlattenIdle ==
    /\ flat = Flatten_new(<< >>)
    /\ input = << >>
    /\ out = << >>
    /\ outb = << >>

SplitIdle ==
    /\ strsplit = StrSplit_new(<< >>, StrDelimiter(<< >>))
    /\ haystack = << >>
    /\ pieces = << >>

Threads == {"t1", "t2"}

TwinIdle ==
    /\ twin = RefCell_new(0)
    /\ twin_last = Called("new", "unit", 0)

RaceIdle ==
    /\ pc = [t \in Threads |-> "idle"]
    /\ seen = [t \in Threads |-> Unshared]
    /\ holders = {}
    /\ torn = {}

RefCellIdle ==
    /\ refcell = RefCell_new(0)
    /\ refs = 0
    /\ muts = 0
    /\ written = [val |-> 0, by |-> "new"]
    /\ overflow_checks = TRUE
    /\ panicked = FALSE
    /\ was = Unshared
    /\ dropped = {}
    /\ held = None

Init ==
    /\ \E v \in Values : refcell = RefCell_new(v) /\ written = [val |-> v, by |-> "new"]
    /\ refs = 0
    /\ muts = 0
    /\ overflow_checks \in BOOLEAN
    /\ panicked = FALSE
    /\ was = Unshared
    /\ dropped = {}
    /\ held = None
    /\ calls = 0
    /\ last = Called("new", "unit", 0)
    /\ prev = Called("none", "unit", 0)
    /\ CellIdle
    /\ FlattenIdle
    /\ SplitIdle
    /\ RaceIdle
    /\ TwinIdle

Running == ~panicked /\ calls < MaxCalls

Borrow ==
    /\ Running
    /\ LET r == RefCell_borrow(refcell, overflow_checks) IN
        /\ refcell' = r.self
        /\ refs' = IF r.ret = "Some" THEN refs + 1 ELSE refs
        /\ panicked' = (r.ret = "panic")
        /\ last' = Called("borrow", r.ret, 0)
    /\ calls' = calls + 1
    /\ prev' = last
    /\ was' = Cell_get(refcell.state)
    /\ UNCHANGED <<muts, written, overflow_checks, held, dropped>>
    /\ UNCHANGED <<cellVars, flattenVars, splitVars, raceVars, twinVars>>

BorrowMut ==
    /\ Running
    /\ LET r == RefCell_borrow_mut(refcell) IN
        /\ refcell' = r.self
        /\ muts' = IF r.ret = "Some" THEN muts + 1 ELSE muts
        /\ last' = Called("borrow_mut", r.ret, 0)
    /\ calls' = calls + 1
    /\ prev' = last
    /\ was' = Cell_get(refcell.state)
    /\ UNCHANGED <<refs, written, overflow_checks, panicked, held, dropped>>
    /\ UNCHANGED <<cellVars, flattenVars, splitVars, raceVars, twinVars>>

\* The guard dropped is one that no kept &T borrows from, as long as there
\* is one; the drop of the last guard ends the kept &T.
DropRef ==
    /\ Running
    /\ refs > 0
    /\ LET r == Ref_drop(refcell, overflow_checks) IN
        /\ refcell' = r.self
        /\ panicked' = (r.ret \in {"panic", "unreachable"})
        /\ last' = Called("drop_ref", r.ret, 0)
    /\ refs' = refs - 1
    /\ held' = IF refs = 1 THEN None ELSE held
    /\ dropped' = dropped \cup {"Ref"}
    /\ calls' = calls + 1
    /\ prev' = last
    /\ was' = Cell_get(refcell.state)
    /\ UNCHANGED <<muts, written, overflow_checks>>
    /\ UNCHANGED <<cellVars, flattenVars, splitVars, raceVars, twinVars>>

DropRefMut ==
    /\ Running
    /\ muts > 0
    /\ LET r == RefMut_drop(refcell) IN
        /\ refcell' = r.self
        /\ panicked' = (r.ret \in {"panic", "unreachable"})
        /\ last' = Called("drop_mut", r.ret, 0)
    /\ muts' = muts - 1
    /\ dropped' = dropped \cup {"RefMut"}
    /\ calls' = calls + 1
    /\ prev' = last
    /\ was' = Cell_get(refcell.state)
    /\ UNCHANGED <<refs, written, overflow_checks, held>>
    /\ UNCHANGED <<cellVars, flattenVars, splitVars, raceVars, twinVars>>

\* `let r = &*guard; *r`: the reference is kept
ReadRef ==
    /\ Running
    /\ refs > 0
    /\ last' = Called("deref_ref", "value", Ref_deref(refcell))
    /\ held' = Some([seen |-> Ref_deref(refcell), stored |-> FALSE])
    /\ calls' = calls + 1
    /\ prev' = last
    /\ was' = Cell_get(refcell.state)
    /\ UNCHANGED <<refcell, refs, muts, written, overflow_checks, panicked, dropped>>
    /\ UNCHANGED <<cellVars, flattenVars, splitVars, raceVars, twinVars>>

\* `*r` again, through the reference kept by ReadRef
ReadHeld ==
    /\ Running
    /\ refs > 0
    /\ held # None
    /\ \E v \in Ref_deref_held(refcell, held[1]) :
        /\ last' = Called("read_held", "value", v)
        /\ held' = Some([held[1] EXCEPT !.seen = v])
    /\ calls' = calls + 1
    /\ prev' = last
    /\ was' = Cell_get(refcell.state)
    /\ UNCHANGED <<refcell, refs, muts, written, overflow_checks, panicked, dropped>>
    /\ UNCHANGED <<cellVars, flattenVars, splitVars, raceVars, twinVars>>

ReadRefMut ==
    /\ Running
    /\ muts > 0
    /\ last' = Called("deref_mut_read", "value", RefMut_deref(refcell))
    /\ calls' = calls + 1
    /\ prev' = last
    /\ was' = Cell_get(refcell.state)
    /\ UNCHANGED <<refcell, refs, muts, written, overflow_checks, panicked, held, dropped>>
    /\ UNCHANGED <<cellVars, flattenVars, splitVars, raceVars, twinVars>>

WriteRefMut ==
    /\ Running
    /\ muts > 0
    /\ \E v \in Values :
        /\ refcell' = RefMut_deref_mut(refcell, v)
        /\ written' = [val |-> v, by |-> "RefMut"]
        /\ last' = Called("deref_mut_write", "unit", v)
    /\ held' = IF held = None THEN None ELSE Some([held[1] EXCEPT !.stored = TRUE])
    /\ calls' = calls + 1
    /\ prev' = last
    /\ was' = Cell_get(refcell.state)
    /\ UNCHANGED <<refs, muts, overflow_checks, panicked, dropped>>
    /\ UNCHANGED <<cellVars, flattenVars, splitVars, raceVars, twinVars>>

Next ==
    \/ Borrow
    \/ BorrowMut
    \/ DropRef
    \/ DropRefMut
    \/ ReadRef
    \/ ReadHeld
    \/ ReadRefMut
    \/ WriteRefMut

Spec == Init /\ [][Next]_vars

State == Cell_get(refcell.state)

\* which operation a step performs
BorrowCall    == last'.op = "borrow"
BorrowMutCall == last'.op = "borrow_mut"
DropRefCall   == last'.op = "drop_ref"
DropMutCall   == last'.op = "drop_mut"

----------------------------------------------------------------------------
(* Claims about RefCell, checked under Spec *)

\* C1: in every reachable state there is no live guard, or one or more live
\* Ref guards and no RefMut, or exactly one live RefMut and no Ref.
C1_SharedXorExclusive ==
    \/ refs = 0 /\ muts = 0
    \/ refs >= 1 /\ muts = 0
    \/ refs = 0 /\ muts = 1

\* C2: borrow() returns None if a RefMut guard is live and Some(guard) in
\* every other case, whatever the number of live Ref guards.
C2_BorrowGrantedUnlessExclusive ==
    [][BorrowCall =>
        IF muts > 0 THEN last'.ret = "None" ELSE last'.ret = "Some"]_vars

\* C3: borrow_mut() returns None if at least one Ref or RefMut guard is live
\* and Some(guard) exactly when no guard of either kind is live.
C3_BorrowMutGrantedIffNoGuard ==
    [][BorrowMutCall =>
        IF refs = 0 /\ muts = 0 THEN last'.ret = "Some" ELSE last'.ret = "None"]_vars

\* C4: while Ref guards are live borrow_mut() returns None; dropping a Ref
\* that is not the last live one does not give Unshared, dropping the last
\* live Ref gives Unshared, and the borrow_mut() that follows is granted.
C4_LastRefDropUnshares ==
    [][/\ (BorrowMutCall /\ refs >= 1) => last'.ret = "None"
       /\ (DropRefCall /\ muts = 0 /\ refs > 1) =>
              (last'.ret = "unit" /\ State' # Unshared)
       /\ (DropRefCall /\ muts = 0 /\ refs = 1) =>
              (last'.ret = "unit" /\ State' = Unshared)
       /\ (BorrowMutCall /\ last.op = "drop_ref" /\ refs = 0 /\ muts = 0) =>
              last'.ret = "Some"]_vars

\* C5: dropping the live RefMut guard sets the state to Unshared, and the
\* borrow() or borrow_mut() that follows it returns a guard.
C5_RefMutDropUnshares ==
    [][/\ DropMutCall => (last'.ret = "unit" /\ State' = Unshared)
       /\ ((BorrowCall \/ BorrowMutCall) /\ last.op = "drop_mut") =>
              last'.ret = "Some"]_vars

C5_Witness ==
    /\ prev.op = "drop_mut" /\ prev.ret = "unit"
    /\ last.op = "borrow" /\ last.ret = "Some"
    /\ State = Shared(1)

\* C6: a refused borrow() is made in state Exclusive and a refused
\* borrow_mut() in state Shared(n) or Exclusive; it leaves the borrow state,
\* the count, the wrapped value and the live guards as they were, raises no
\* panic, and is refused again when repeated.
C6_RefusalChangesNothing ==
    [][/\ ((BorrowCall \/ BorrowMutCall) /\ last'.ret = "None") =>
              /\ refcell' = refcell
              /\ refs' = refs
              /\ muts' = muts
              /\ ~panicked'
              /\ BorrowCall => State = Exclusive
              /\ BorrowMutCall => State.tag \in {"Shared", "Exclusive"}
       /\ ((BorrowCall \/ BorrowMutCall) /\ last.ret = "None" /\ last'.op = last.op) =>
              last'.ret = "None"]_vars

C6_Witness ==
    /\ prev.op = "borrow_mut" /\ prev.ret = "None"
    /\ last.op = "borrow_mut" /\ last.ret = "None"
    /\ State.tag = "Shared" /\ State.num = 2 /\ refs = 2
    /\ ~panicked

\* C8: a read through a Ref or a RefMut, or through a reference obtained
\* from one, returns the value last stored through a RefMut, or the argument
\* of RefCell::new if nothing was stored; the wrapped value is that value in
\* every state, so it survives the drop of the RefMut, and two reads through
\* Ref guards with no store in between agree.
C8_ReadsLastWritten ==
    /\ refcell.value = written.val
    /\ last.op \in {"deref_ref", "read_held", "deref_mut_read"} => last.val = written.val
    /\ (last.op \in {"deref_ref", "read_held"} /\ prev.op \in {"deref_ref", "read_held"}) =>
           last.val = prev.val

\* C9: a stored Shared(count) has count >= 1, and borrow() in state
\* Shared(n) returns a guard and sets Shared(n+1), for every n of isize.
C9_SharedCountPositiveAndIncremented ==
    [][/\ State.tag = "Shared" => State.num >= 1
       /\ State'.tag = "Shared" => State'.num >= 1
       /\ (BorrowCall /\ State.tag = "Shared") =>
              (last'.ret = "Some" /\ State' = Shared(State.num + 1))]_vars

----------------------------------------------------------------------------
(* CellSpec: one Cell, set and read by one thread *)

CellInit ==
    /\ \E v \in Values :
        /\ cell = Cell_new(v)
        /\ lastset = v
        /\ last = Called("new", "unit", v)
    /\ got = << >>
    /\ calls = 0
    /\ prev = Called("none", "unit", 0)
    /\ RefCellIdle
    /\ FlattenIdle
    /\ SplitIdle
    /\ RaceIdle
    /\ TwinIdle

CellSet ==
    /\ calls < MaxCalls
    /\ \E v \in Values :
        /\ cell' = Cell_set(cell, v)
        /\ lastset' = v
        /\ last' = Called("set", "unit", v)
    /\ calls' = calls + 1
    /\ prev' = last
    /\ UNCHANGED got
    /\ UNCHANGED <<refcellVars, flattenVars, splitVars, raceVars, twinVars>>

CellGet ==
    /\ calls < MaxCalls
    /\ Len(got) < MaxGets
    /\ LET v == Cell_get(cell) IN
        /\ got' = Append(got, [ret |-> v, arg |-> lastset])
        /\ last' = Called("get", "value", v)
    /\ calls' = calls + 1
    /\ prev' = last
    /\ UNCHANGED <<cell, lastset>>
    /\ UNCHANGED <<refcellVars, flattenVars, splitVars, raceVars, twinVars>>

CellNext == CellSet \/ CellGet

CellSpec == CellInit /\ [][CellNext]_vars

\* C7: get() returns the argument of the most recent set(), or of new() if
\* there was no set(); get() leaves the stored value as it was; a value
\* returned by an earlier get() stays what it was when read.
C7_GetReturnsLastSet ==
    /\ Cell_get(cell) = lastset
    /\ last.op = "get" => last.val = lastset
    /\ (last.op = "get" /\ prev.op = "set") => last.val = prev.val
    /\ \A i \in 1 .. Len(got) : got[i].ret = got[i].arg

\* first_read / second_read of cell_doc.rs: get, set another value, get
C7_Witness ==
    /\ Len(got) = 2
    /\ got[1].ret # got[2].ret
    /\ prev.op = "set" /\ last.op = "get" /\ last.val = prev.val
    /\ got[1].ret # Cell_get(cell)

----------------------------------------------------------------------------
(* FlattenSpec: flatten() of a finite iterable of finite iterables, driven *)
(* from the front by next()                                                *)

Inners == SeqsUpTo(Items, MaxInner)
Outers == SeqsUpTo(Inners, MaxOuter)

FlattenInit ==
    /\ input \in Outers
    /\ flat = flatten(input)
    /\ out = << >>
    /\ outb = << >>
    /\ calls = 0
    /\ last = Called("flatten", "unit", 0)
    /\ prev = Called("none", "unit", 0)
    /\ RefCellIdle
    /\ CellIdle
    /\ SplitIdle
    /\ RaceIdle
    /\ TwinIdle

CallNext ==
    /\ calls < MaxCalls
    /\ LET r == Flatten_next(flat) IN
        /\ flat' = r.self
        /\ out' = IF r.ret = None THEN out ELSE Append(out, r.ret[1])
        /\ last' = IF r.ret = None THEN Called("next", "None", 0)
                                   ELSE Called("next", "Some", r.ret[1])
    /\ calls' = calls + 1
    /\ prev' = last
    /\ UNCHANGED <<input, outb>>
    /\ UNCHANGED <<refcellVars, cellVars, splitVars, raceVars, twinVars>>

FlattenNext == CallNext

FlattenSpec == FlattenInit /\ [][FlattenNext]_vars

\* the inner iterables concatenated in outer order
RECURSIVE Concat(_)
Concat(ss) == IF ss = << >> THEN << >> ELSE Head(ss) \o Concat(Tail(ss))

\* the sum of the inner lengths
RECURSIVE SumLen(_)
SumLen(ss) == IF ss = << >> THEN 0 ELSE Len(Head(ss)) + SumLen(Tail(ss))

\* C10: the n-th next() returns the n-th item of the concatenation of the
\* inner iterables, and None once n exceeds the sum of the inner lengths;
\* so the items yielded are the concatenation, each once, and the iteration
\* ends after finitely many calls, also for an empty outer iterator and for
\* empty inner iterables.
C10_FlattenYieldsConcatenation ==
    LET all == Concat(input)
        n   == IF calls <= SumLen(input) THEN calls ELSE SumLen(input)
    IN  /\ Len(all) = SumLen(input)
        /\ out = SubSeq(all, 1, n)
        /\ last.op = "next" =>
              IF calls <= SumLen(input)
              THEN last.ret = "Some" /\ last.val = all[calls]
              ELSE last.ret = "None" /\ out = all

C10_Witness ==
    /\ input = << <<1>>, << >>, <<2, 1>> >>
    /\ out = <<1, 2, 1>>
    /\ prev.op = "next" /\ prev.ret = "None"
    /\ last.op = "next" /\ last.ret = "None"

----------------------------------------------------------------------------
(* FlattenBothSpec: flatten() driven from both ends, next() and next_back() *)
(* in any order.  FlattenRevSpec: driven by next_back() only, as rev()      *)
(* does.  Flatten never looks at an item, so the items are numbered         *)
(* 1, 2, ... in the order of the concatenation and only the lengths of the  *)
(* inner iterables are drawn.                                               *)

Shapes == SeqsUpTo(0 .. MaxInner, MaxOuter)

\* the inner iterables of the given lengths, items numbered from base + 1
RECURSIVE Numbered(_, _)
Numbered(shape, base) ==
    IF shape = << >> THEN << >>
    ELSE << [i \in 1 .. Head(shape) |-> base + i] >>
         \o Numbered(Tail(shape), base + Head(shape))

FlattenBothInit ==
    /\ \E shape \in Shapes : input = Numbered(shape, 0)
    /\ flat = flatten(input)
    /\ out = << >>
    /\ outb = << >>
    /\ calls = 0
    /\ last = Called("flatten", "unit", 0)
    /\ prev = Called("none", "unit", 0)
    /\ RefCellIdle
    /\ CellIdle
    /\ SplitIdle
    /\ RaceIdle
    /\ TwinIdle

CallNextBack ==
    /\ calls < MaxCalls
    /\ LET r == Flatten_next_back(flat) IN
        /\ flat' = r.self
        /\ outb' = IF r.ret = None THEN outb ELSE Append(outb, r.ret[1])
        /\ last' = IF r.ret = None THEN Called("next_back", "None", 0)
                                   ELSE Called("next_back", "Some", r.ret[1])
    /\ calls' = calls + 1
    /\ prev' = last
    /\ UNCHANGED <<input, out>>
    /\ UNCHANGED <<refcellVars, cellVars, splitVars, raceVars, twinVars>>

FlattenBothNext == CallNext \/ CallNextBack

FlattenBothSpec == FlattenBothInit /\ [][FlattenBothNext]_vars

FlattenRevNext == CallNextBack

FlattenRevSpec == FlattenBothInit /\ [][FlattenRevNext]_vars

\* the number of items of the input
Total == SumLen(input)

\* C11: whatever the order of the next() and next_back() calls, next() has
\* yielded items 1, 2, ... of the concatenation in order, next_back() has
\* yielded its last items in reverse order, no item was yielded at both
\* ends, and a call returns None exactly when every item has been yielded.
C11_BothEndsYieldEachItemOnce ==
    /\ Concat(input) = [i \in 1 .. Total |-> i]
    /\ out  = [i \in 1 .. Len(out)  |-> i]
    /\ outb = [i \in 1 .. Len(outb) |-> Total + 1 - i]
    /\ Len(out) + Len(outb) <= Total
    /\ last.op \in {"next", "next_back"} =>
          IF calls <= Total
          THEN last.ret = "Some" /\ Len(out) + Len(outb) = calls
          ELSE last.ret = "None" /\ Len(out) + Len(outb) = Total

\* the two ends have met inside the second inner iterable and both are done
C11_Witness ==
    /\ input = << <<1>>, <<2, 3>>, << >> >>
    /\ out = <<1, 2>>
    /\ outb = <<3>>
    /\ prev = Called("next", "None", 0)
    /\ last = Called("next_back", "None", 0)

\* C12: next_back() alone yields the items of the concatenation in exactly
\* the reverse order, then None.
C12_RevYieldsReverse ==
    /\ out = << >>
    /\ outb = [i \in 1 .. Len(outb) |-> Total + 1 - i]
    /\ Len(outb) = IF calls <= Total THEN calls ELSE Total
    /\ last.op = "next_back" => (last.ret = "None" <=> calls > Total)

\* reverse (one inner iterable of two items) and reverse_wide (two of one)
C12_Witness ==
    /\ input \in { << <<1, 2>> >>, << <<1>>, <<2>> >> }
    /\ outb = <<2, 1>>
    /\ last = Called("next_back", "None", 0)

----------------------------------------------------------------------------
(* StrSplitSpec: one StrSplit over a haystack, with a &str or a char        *)
(* delimiter, driven by next(); or one call of until_char.                  *)

Haystacks  == {Str(cs) : cs \in SeqsUpTo(Alphabet, MaxHay)}
Delimiters == {StrDelimiter(Str(cs)) : cs \in SeqsUpTo(Alphabet, MaxDelim)}
              \cup {CharDelimiter(c) : c \in Alphabet}

StrSplitInit ==
    /\ haystack \in Haystacks
    /\ \E d \in Delimiters : strsplit = StrSplit_new(haystack, d)
    /\ pieces = << >>
    /\ calls = 0
    /\ last = Called("new", "unit", 0)
    /\ prev = Called("none", "unit", 0)
    /\ RefCellIdle
    /\ CellIdle
    /\ FlattenIdle
    /\ RaceIdle
    /\ TwinIdle

SplitNext ==
    /\ calls < MaxCalls
    /\ last.op # "until_char"
    /\ LET r == StrSplit_next(strsplit) IN
        /\ strsplit' = r.self
        /\ pieces' = IF r.ret = None THEN pieces ELSE Append(pieces, r.ret[1])
        /\ last' = Called("next", IF r.ret = None THEN "None" ELSE "Some", 0)
    /\ calls' = calls + 1
    /\ prev' = last
    /\ UNCHANGED haystack
    /\ UNCHANGED <<refcellVars, cellVars, flattenVars, raceVars, twinVars>>

\* until_char(haystack, c), c the char the StrSplit was created with
UntilChar ==
    /\ calls = 0
    /\ strsplit.delimiter.kind = "char"
    /\ LET r == until_char(haystack, strsplit.delimiter.c) IN
        /\ pieces' = << r.val >>
        /\ last' = Called("until_char", r.ret, 0)
    /\ calls' = calls + 1
    /\ prev' = last
    /\ UNCHANGED <<strsplit, haystack>>
    /\ UNCHANGED <<refcellVars, cellVars, flattenVars, raceVars, twinVars>>

StrSplitNext == SplitNext \/ UntilChar

StrSplitSpec == StrSplitInit /\ [][StrSplitNext]_vars

\* the pieces joined by the delimiter
RECURSIVE Join(_, _)
Join(ps, pat) ==
    IF ps = << >> THEN << >>
    ELSE IF Len(ps) = 1 THEN ps[1]
    ELSE ps[1] \o pat \o Join(Tail(ps), pat)

\* pat occurs in s at byte offset i
OccursAt(s, pat, i) == i + Len(pat) <= Len(s) /\ Slice(s, i, i + Len(pat)) = pat

\* the number of non-overlapping occurrences of a non-empty pat in s, found
\* left to right from offset i
RECURSIVE CountOcc(_, _, _)
CountOcc(s, pat, i) ==
    IF i + Len(pat) > Len(s) THEN 0
    ELSE IF OccursAt(s, pat, i) THEN 1 + CountOcc(s, pat, i + Len(pat))
    ELSE CountOcc(s, pat, i + 1)

\* one of those occurrences ends where s ends
RECURSIVE LastOccAtEnd(_, _, _)
LastOccAtEnd(s, pat, i) ==
    IF i + Len(pat) > Len(s) THEN FALSE
    ELSE IF OccursAt(s, pat, i)
         THEN i + Len(pat) = Len(s) \/ LastOccAtEnd(s, pat, i + Len(pat))
    ELSE LastOccAtEnd(s, pat, i + 1)

EndsWith(s, pat) == Len(s) >= Len(pat) /\ SliceFrom(s, Len(s) - Len(pat)) = pat

SplitDone == strsplit.remainder = None
Pat       == strsplit.delimiter.pat
ByStr     == strsplit.delimiter.kind = "str" /\ Pat # << >>

\* the piece was cut at the first occurrence of the delimiter after its start
CutAtFirst(piece) ==
    \A i \in 0 .. Len(piece) - 1 : ~OccursAt(piece \o Pat, Pat, i)

\* what C13 says of the pieces, apart from the final empty string
SplitsAtOccurrences ==
    /\ \A k \in 1 .. Len(pieces) :
          IF SplitDone /\ k = Len(pieces)
          THEN \A i \in 0 .. Len(pieces[k]) : ~OccursAt(pieces[k], Pat, i)
          ELSE CutAtFirst(pieces[k])
    /\ IF SplitDone
       THEN pieces # << >> =>
               /\ Len(pieces) = CountOcc(haystack, Pat, 0) + 1
               /\ Join(pieces, Pat) = haystack
       ELSE Join(Append(pieces, strsplit.remainder[1]), Pat) = haystack

\* C13 as claimed: with a non-empty &str delimiter the items are the pieces
\* between the non-overlapping occurrences found left to right, one more than
\* the occurrences, joining to the haystack; and a haystack that ends with
\* the delimiter yields a final empty string.
C13_SplitPiecesAsClaimed ==
    (ByStr /\ last.op # "until_char") =>
        /\ SplitsAtOccurrences
        /\ (SplitDone /\ pieces # << >> /\ EndsWith(haystack, Pat)) =>
               pieces[Len(pieces)] = << >>

\* C13 as amended: the final empty string is yielded when the last of the
\* non-overlapping occurrences found left to right ends where the haystack
\* ends.
C13_SplitPieces ==
    (ByStr /\ last.op # "until_char") =>
        /\ SplitsAtOccurrences
        /\ (SplitDone /\ pieces # << >> /\ LastOccAtEnd(haystack, Pat, 0)) =>
               pieces[Len(pieces)] = << >>

\* "abéb" split by "b": "a", "é", ""
C13_Witness ==
    /\ haystack = Str(<<97, 98, 233, 98>>)
    /\ strsplit.delimiter = StrDelimiter(Str(<<98>>))
    /\ pieces = << Str(<<97>>), Str(<<233>>), << >> >>
    /\ SplitDone
    /\ last = Called("next", "Some", 0)

\* the chars of s
Chars(s) == [k \in 1 .. Len(char_indices(s, 0)) |-> char_indices(s, 0)[k][2]]

\* the chars before the first c, all of them if there is no c
RECURSIVE TakeUntil(_, _)
TakeUntil(cs, c) ==
    IF cs = << >> \/ Head(cs) = c THEN << >>
    ELSE << Head(cs) >> \o TakeUntil(Tail(cs), c)

\* C14: the first next() of a new StrSplit returns Some, whatever the
\* haystack and the delimiter; until_char does not panic and returns the
\* part of s before the first c, or all of s if c does not occur in it.
C14_FirstNextIsSome ==
    /\ (calls = 1 /\ last.op = "next") => (last.ret = "Some" /\ Len(pieces) = 1)
    /\ last.op = "until_char" =>
          /\ last.ret = "ok"
          /\ pieces = << Str(TakeUntil(Chars(haystack), strsplit.delimiter.c)) >>

\* until_char("éab", 'b') = "éa"
C14_Witness ==
    /\ haystack = Str(<<233, 97, 98>>)
    /\ last = Called("until_char", "ok", 0)
    /\ pieces = << Str(<<233, 97>>) >>

----------------------------------------------------------------------------
(* More claims about RefCell, checked under Spec *)

\* C15: the stored borrow state matches the live guards: Unshared iff no
\* guard is live, Shared(n) iff exactly n >= 1 Ref guards and no RefMut are
\* live, Exclusive iff exactly one RefMut and no Ref is live.
C15_StateMatchesGuards ==
    /\ State = Unshared  <=> (refs = 0 /\ muts = 0)
    /\ State = Exclusive <=> (refs = 0 /\ muts = 1)
    /\ State.tag = "Shared" <=> (refs >= 1 /\ muts = 0)
    /\ State.tag = "Shared" => State.num = refs

\* C16: no drop of a granted guard, each dropped at most once, reaches the
\* unreachable!() arm of Ref::drop or of RefMut::drop.
C16_UnreachableNotReached ==
    last.op \in {"drop_ref", "drop_mut"} => last.ret # "unreachable"

\* C17: borrow() and the drop of its guard right after restore the state
\* that held before the borrow; borrow_mut() and the drop of its guard
\* restore Unshared; the drop of a Ref in Shared(n > 1) gives Shared(n - 1);
\* and the drop that leaves no guard live ends in Unshared.
C17_DropUndoesBorrow ==
    [][/\ (DropRefCall /\ last.op = "borrow" /\ last.ret = "Some") =>
              (last'.ret = "unit" /\ State' = was)
       /\ (DropMutCall /\ last.op = "borrow_mut" /\ last.ret = "Some") =>
              (last'.ret = "unit" /\ State' = was /\ State' = Unshared)
       /\ (DropRefCall /\ State.tag = "Shared" /\ State.num > 1) =>
              (last'.ret = "unit" /\ State' = Shared(State.num - 1))
       /\ ((DropRefCall \/ DropMutCall) /\ refs' = 0 /\ muts' = 0) =>
              (last'.ret = "unit" /\ State' = Unshared)]_vars

\* C20: the wrapped value changes only by a store through a live RefMut;
\* borrow(), borrow_mut(), the reads and both drops leave it unchanged, and
\* a read or a store through a guard leaves the borrow state unchanged.
C20_ValueAndStateFrames ==
    [][/\ refcell'.value # refcell.value =>
              (last'.op = "deref_mut_write" /\ muts > 0)
       /\ last'.op \in {"borrow", "borrow_mut", "drop_ref", "drop_mut",
                        "deref_ref", "read_held", "deref_mut_read"} =>
              refcell'.value = refcell.value
       /\ last'.op \in {"deref_ref", "read_held", "deref_mut_read", "deref_mut_write"} =>
              refcell'.state = refcell.state]_vars

\* a store of another value than the one just read, under the RefMut
C20_Witness ==
    /\ prev.op = "deref_mut_read" /\ last.op = "deref_mut_write"
    /\ prev.val # last.val
    /\ refcell.value = last.val
    /\ State = Exclusive /\ was = Exclusive

----------------------------------------------------------------------------
(* MisuseSpec: Spec, and in addition a guard that was dropped may be       *)
(* dropped again (a second release of the same guard).                     *)

DropRefAgain ==
    /\ Running
    /\ "Ref" \in dropped
    /\ LET r == Ref_drop(refcell, overflow_checks) IN
        /\ refcell' = r.self
        /\ panicked' = (r.ret \in {"panic", "unreachable"})
        /\ last' = Called("drop_ref_again", r.ret, 0)
    /\ calls' = calls + 1
    /\ prev' = last
    /\ was' = Cell_get(refcell.state)
    /\ UNCHANGED <<refs, muts, written, overflow_checks, held, dropped>>
    /\ UNCHANGED <<cellVars, flattenVars, splitVars, raceVars, twinVars>>

DropRefMutAgain ==
    /\ Running
    /\ "RefMut" \in dropped
    /\ LET r == RefMut_drop(refcell) IN
        /\ refcell' = r.self
        /\ panicked' = (r.ret \in {"panic", "unreachable"})
        /\ last' = Called("drop_mut_again", r.ret, 0)
    /\ calls' = calls + 1
    /\ prev' = last
    /\ was' = Cell_get(refcell.state)
    /\ UNCHANGED <<refs, muts, written, overflow_checks, held, dropped>>
    /\ UNCHANGED <<cellVars, flattenVars, splitVars, raceVars, twinVars>>

MisuseNext == Next \/ DropRefAgain \/ DropRefMutAgain

MisuseSpec == Init /\ [][MisuseNext]_vars

\* C18: the drop of a Ref that observes Unshared or Exclusive, and the drop
\* of a RefMut that observes Unshared or Shared(_), is fatal: it panics and
\* leaves the borrow state, count included, as it found it.
C18_BadDropIsFatal ==
    [][/\ (last'.op \in {"drop_ref", "drop_ref_again"}
              /\ State.tag \in {"Unshared", "Exclusive"}) =>
              (last'.ret = "unreachable" /\ panicked' /\ refcell' = refcell)
       /\ (last'.op \in {"drop_mut", "drop_mut_again"}
              /\ State.tag \in {"Unshared", "Shared"}) =>
              (last'.ret = "unreachable" /\ panicked' /\ refcell' = refcell)]_vars

\* the RefMut is dropped, a Ref is granted, the RefMut is dropped again
C18_Witness ==
    /\ "RefMut" \in dropped
    /\ prev.op = "borrow" /\ prev.ret = "Some"
    /\ last = Called("drop_mut_again", "unreachable", 0)
    /\ State = Shared(1) /\ was = Shared(1)
    /\ panicked

----------------------------------------------------------------------------
(* RaceSpec: two threads share one RefCell and call borrow() and drop     *)
(* their Ref. Each call is two steps: the state.get() of its `match`, and  *)
(* the arm chosen by the value read, with its state.set(). The steps of    *)
(* the two threads interleave. A thread holds at most one Ref at a time.   *)

\* with(self, st): the RefCell as the thread that read st sees it
Seen(self, st) == [self EXCEPT !.state = Cell_new(st)]

\* `match self.state.get()` of RefCell::borrow
BorrowGet(t) ==
    /\ Running
    /\ pc[t] = "idle"
    /\ t \notin holders
    /\ seen' = [seen EXCEPT ![t] = Cell_get(refcell.state)]
    /\ pc' = [pc EXCEPT ![t] = "borrow"]
    /\ last' = Called("borrow_get", "unit", 0)
    /\ calls' = calls + 1
    /\ prev' = last
    /\ was' = Cell_get(refcell.state)
    /\ UNCHANGED <<refcell, refs, muts, written, overflow_checks, panicked, held, dropped>>
    /\ UNCHANGED <<holders, torn>>
    /\ UNCHANGED <<cellVars, flattenVars, splitVars, twinVars>>

\* the arm of RefCell::borrow that runs at once on the state as it is now
BorrowSet_rereads(t) ==
    /\ Running
    /\ pc[t] = "borrow"
    /\ LET r == RefCell_borrow(refcell, overflow_checks) IN
        /\ refcell' = IF r.ret = "Some"
                      THEN [refcell EXCEPT !.state =
                               Cell_set(refcell.state, Cell_get(r.self.state))]
                      ELSE refcell
        /\ panicked' = (r.ret = "panic")
        /\ refs' = IF r.ret = "Some" THEN refs + 1 ELSE refs
        /\ holders' = IF r.ret = "Some" THEN holders \cup {t} ELSE holders
        /\ last' = Called("borrow_set", r.ret, 0)
    /\ torn' = IF Cell_get(refcell.state) # seen[t] THEN torn \cup {"borrow"} ELSE torn
    /\ pc' = [pc EXCEPT ![t] = "idle"]
    /\ calls' = calls + 1
    /\ prev' = last
    /\ was' = Cell_get(refcell.state)
    /\ UNCHANGED <<muts, written, overflow_checks, held, dropped, seen>>
    /\ UNCHANGED <<cellVars, flattenVars, splitVars, twinVars>>

\* the arm of RefCell::borrow chosen by the state the thread read
BorrowSet(t) ==
    /\ Running
    /\ pc[t] = "borrow"
    /\ LET r == RefCell_borrow(Seen(refcell, seen[t]), overflow_checks) IN
        /\ refcell' = IF r.ret = "Some"
                      THEN [refcell EXCEPT !.state =
                               Cell_set(refcell.state, Cell_get(r.self.state))]
                      ELSE refcell
        /\ panicked' = (r.ret = "panic")
        /\ refs' = IF r.ret = "Some" THEN refs + 1 ELSE refs
        /\ holders' = IF r.ret = "Some" THEN holders \cup {t} ELSE holders
        /\ last' = Called("borrow_set", r.ret, 0)
    /\ torn' = IF Cell_get(refcell.state) # seen[t] THEN torn \cup {"borrow"} ELSE torn
    /\ pc' = [pc EXCEPT ![t] = "idle"]
    /\ calls' = calls + 1
    /\ prev' = last
    /\ was' = Cell_get(refcell.state)
    /\ UNCHANGED <<muts, written, overflow_checks, held, dropped, seen>>
    /\ UNCHANGED <<cellVars, flattenVars, splitVars, twinVars>>

\* `match self.refcell.state.get()` of <Ref as Drop>::drop
DropGet(t) ==
    /\ Running
    /\ pc[t] = "idle"
    /\ t \in holders
    /\ seen' = [seen EXCEPT ![t] = Cell_get(refcell.state)]
    /\ pc' = [pc EXCEPT ![t] = "drop"]
    /\ last' = Called("drop_get", "unit", 0)
    /\ calls' = calls + 1
    /\ prev' = last
    /\ was' = Cell_get(refcell.state)
    /\ UNCHANGED <<refcell, refs, muts, written, overflow_checks, panicked, held, dropped>>
    /\ UNCHANGED <<holders, torn>>
    /\ UNCHANGED <<cellVars, flattenVars, splitVars, twinVars>>

\* the arm of <Ref as Drop>::drop chosen by the state the thread read
DropSet(t) ==
    /\ Running
    /\ pc[t] = "drop"
    /\ LET r == Ref_drop(Seen(refcell, seen[t]), overflow_checks) IN
        /\ refcell' = IF r.ret = "unit"
                      THEN [refcell EXCEPT !.state =
                               Cell_set(refcell.state, Cell_get(r.self.state))]
                      ELSE refcell
        /\ panicked' = (r.ret \in {"panic", "unreachable"})
        /\ last' = Called("drop_set", r.ret, 0)
    /\ refs' = refs - 1
    /\ holders' = holders \ {t}
    /\ dropped' = dropped \cup {"Ref"}
    /\ torn' = IF Cell_get(refcell.state) # seen[t] THEN torn \cup {"drop"} ELSE torn
    /\ pc' = [pc EXCEPT ![t] = "idle"]
    /\ calls' = calls + 1
    /\ prev' = last
    /\ was' = Cell_get(refcell.state)
    /\ UNCHANGED <<muts, written, overflow_checks, held, seen>>
    /\ UNCHANGED <<cellVars, flattenVars, splitVars, twinVars>>

RaceNext ==
    \E t \in Threads : BorrowGet(t) \/ BorrowSet(t) \/ DropGet(t) \/ DropSet(t)

RaceSpec == Init /\ [][RaceNext]_vars

\* the stored state is the one the live Refs call for
RaceMatches == State = IF refs = 0 THEN Unshared ELSE Shared(refs)

\* C19: when both threads read Unshared in borrow() before either sets,
\* both set Shared(1): two Refs are live and the stored count is 1. A drop
\* that then runs undisturbed in Shared(1) sets Unshared, and the next one
\* observes Unshared and reaches unreachable!(). While every get/set pair
\* has run undisturbed the state matches the live Refs, and the first pair
\* that another thread's set disturbs ends the match.
C19_RaceLosesABorrow ==
    [][/\ ((\A t \in Threads : pc'[t] = "idle" /\ seen'[t] = Unshared)
              /\ holders' = Threads) =>
              (State' = Shared(1) /\ refs' = 2 /\ torn' # {})
       /\ \A t \in Threads :
              (pc[t] = "drop" /\ pc'[t] = "idle" /\ seen[t] = State) =>
                  /\ State = Shared(1) => (last'.ret = "unit" /\ State' = Unshared)
                  /\ State = Unshared =>
                         (last'.ret = "unreachable" /\ panicked' /\ State' = Unshared)
       /\ torn' = {} => RaceMatches'
       /\ (torn = {} /\ torn' # {}) => ~RaceMatches']_vars

\* each thread has borrowed once and dropped once; the borrows overlapped,
\* the drops did not, and the second drop found Unshared
C19_Witness ==
    /\ calls = 8
    /\ torn = {"borrow"}
    /\ holders = {} /\ refs = 0
    /\ \A t \in Threads : pc[t] = "idle" /\ seen[t].tag # "Exclusive"
    /\ prev.op = "drop_get"
    /\ last = Called("drop_set", "unreachable", 0)
    /\ State = Unshared /\ was = Unshared
    /\ panicked

----------------------------------------------------------------------------
(* TwinSpec: two RefCells, with wrapped values of their own, are given the *)
(* same sequence of borrow(), borrow_mut() and guard drops on one thread.  *)
(* Every operation is applied in every state, the drop of a guard that is *)
(* not live included; which guards are live is not followed here.          *)

TwinInit ==
    /\ \E v \in Values : refcell = RefCell_new(v) /\ written = [val |-> v, by |-> "new"]
    /\ \E w \in Values : twin = RefCell_new(w)
    /\ twin_last = Called("new", "unit", 0)
    /\ refs = 0
    /\ muts = 0
    /\ overflow_checks \in BOOLEAN
    /\ panicked = FALSE
    /\ was = Unshared
    /\ dropped = {}
    /\ held = None
    /\ calls = 0
    /\ last = Called("new", "unit", 0)
    /\ prev = Called("none", "unit", 0)
    /\ CellIdle
    /\ FlattenIdle
    /\ SplitIdle
    /\ RaceIdle

\* one operation, with outcome r on refcell and outcome q on twin
TwinStep(op, r, q) ==
    /\ refcell' = r.self
    /\ twin' = q.self
    /\ last' = Called(op, r.ret, 0)
    /\ twin_last' = Called(op, q.ret, 0)
    /\ panicked' = (r.ret \in {"panic", "unreachable"} \/ q.ret \in {"panic", "unreachable"})
    /\ calls' = calls + 1
    /\ prev' = last
    /\ was' = Cell_get(refcell.state)
    /\ UNCHANGED <<refs, muts, written, overflow_checks, held, dropped>>
    /\ UNCHANGED <<cellVars, flattenVars, splitVars, raceVars>>

TwinBorrow ==
    /\ Running
    /\ TwinStep("borrow", RefCell_borrow(refcell, overflow_checks),
                          RefCell_borrow(twin, overflow_checks))

TwinBorrowMut ==
    /\ Running
    /\ TwinStep("borrow_mut", RefCell_borrow_mut(refcell), RefCell_borrow_mut(twin))

TwinDropRef ==
    /\ Running
    /\ TwinStep("drop_ref", Ref_drop(refcell, overflow_checks),
                            Ref_drop(twin, overflow_checks))

TwinDropRefMut ==
    /\ Running
    /\ TwinStep("drop_mut", RefMut_drop(refcell), RefMut_drop(twin))

TwinNext == TwinBorrow \/ TwinBorrowMut \/ TwinDropRef \/ TwinDropRefMut

TwinSpec == TwinInit /\ [][TwinNext]_vars

----------------------------------------------------------------------------
(* The life of one RefCell, checked under Spec *)

\* C22: the first borrow() or borrow_mut() on a new RefCell returns a guard;
\* no operation ends the life of the cell; when every granted guard has been
\* dropped the state is Unshared again; and borrow() is refused only while a
\* RefMut is live, borrow_mut() only while some guard is live.
C22_NeverStuck ==
    /\ (calls = 1 /\ last.op \in {"borrow", "borrow_mut"}) => last.ret = "Some"
    /\ ~panicked
    /\ (refs = 0 /\ muts = 0) => State = Unshared
    /\ (last.op = "borrow" /\ last.ret # "Some") => (last.ret = "None" /\ muts > 0)
    /\ (last.op = "borrow_mut" /\ last.ret # "Some") => (last.ret = "None" /\ refs + muts > 0)

----------------------------------------------------------------------------
(* The end of a StrSplit, checked under StrSplitSpec *)

\* C23: iterating a StrSplit ends, for a char and for any &str delimiter,
\* the empty one included: a delimiter is found at most once per byte of
\* the haystack, so the call after Len(haystack) + 1 calls of next()
\* returns None, and once next() has returned None the remainder is None
\* and every later next() returns None.
C23_SplitEnds ==
    last.op = "next" =>
        /\ calls > Len(haystack) + 1 => (last.ret = "None" /\ SplitDone)
        /\ last.ret = "None" => SplitDone
        /\ (prev.op = "next" /\ prev.ret = "None") => last.ret = "None"

====
